---- MODULE Spec2Model ----
(***************************************************************************)
(* A model of scripts/analyzer.py: the JSON-lines record reader, the       *)
(* descriptive statistics, the effect-size interpretation and main().      *)
(*                                                                         *)
(* Numbers are integers.  A passAtK value v stands for the number v, so    *)
(* that comparisons and differences are exact; a percentile is kept as a   *)
(* fraction over 100 (the operator returns 100 times the value).           *)
(*                                                                         *)
(* A Python dict is a function whose DOMAIN is the set of its keys; None   *)
(* is the integer -1, which is no identifier and no passAtK value.         *)
(***************************************************************************)
EXTENDS Integers, Sequences, FiniteSets, TLC

VARIABLES
    pc,                      \* where control is
    argv,                    \* the positional command-line arguments
    exists,                  \* the paths for which Path.exists() is true
    files,                   \* path -> the file's physical lines
    stdout,                  \* the report sections printed so far
    stderr,                  \* the diagnostics written so far
    exit_status,             \* Unset while running, then the process status
    raised,                  \* the uncaught exception, "" when there is none
    call,                    \* the function under call and its arguments
    ret,                     \* what the function returned
    you_path, builtin_path,
    you_records, builtin_records,
    you_by_id, builtin_by_id,
    matching_ids,
    pending_ids,             \* the part of matching_ids the loop has yet to visit
    aligned_ids,             \* history: the id behind each aligned position
    you_passAtK_values, builtin_passAtK_values,
    you_better,
    you_stats, builtin_stats,
    you_wins, builtin_wins, ties

envVars == <<argv, exists, files>>
ioVars == <<stdout, stderr, exit_status, raised>>
callVars == <<call, ret>>
pathVars == <<you_path, builtin_path>>
recordVars == <<you_records, builtin_records>>
indexVars == <<you_by_id, builtin_by_id, matching_ids>>
loopVars == <<pending_ids, aligned_ids, you_passAtK_values,
              builtin_passAtK_values, you_better>>
statVars == <<you_stats, builtin_stats>>
h2hVars == <<you_wins, builtin_wins, ties>>
mainVars == <<pathVars, recordVars, indexVars, loopVars, statVars, h2hVars>>
vars == <<pc, envVars, ioVars, callVars, mainVars>>

----------------------------------------------------------------------------
(* Bounds of the model. *)

MaxLines == 2                \* physical lines per file
MaxLineLen == 2              \* tokens per line in the reader's files
MaxLen == 3                  \* length of a sample given to the statistics
MaxVal == 2                  \* sample values are 0..MaxVal
MaxDiff == 5                 \* |mean difference| in the effect-size inputs
MaxStd == 6                  \* standard deviation in the effect-size inputs
MaxStatRecords == 2          \* records given to print_stats alone

None == 0 - 1
Unset == 0 - 2

\* Two identifiers let an id be in one record set, in the other or in both,
\* and be repeated; two passAtK values let a pair be a win, a loss or a tie.
Ids == {1, 2}
PassValues == {0, 1}

SeqsUpTo(S, n) == UNION {[1 .. k -> S] : k \in 0 .. n}

RECURSIVE SumSeq(_)
SumSeq(s) == IF s = <<>> THEN 0 ELSE Head(s) + SumSeq(Tail(s))

Abs(x) == IF x < 0 THEN 0 - x ELSE x

Min2(a, b) == IF a < b THEN a ELSE b

----------------------------------------------------------------------------
(* Text.  A physical line is a sequence of tokens: whitespace, a complete  *)
(* JSON object (carrying the dict it denotes), or text that belongs to no  *)
(* JSON document.  The line terminator is not part of the sequence.        *)

WS == [kind |-> "ws"]
JUNK == [kind |-> "junk"]
OBJ(r) == [kind |-> "obj", value |-> r]

\* str.strip(): drop the leading and the trailing whitespace.
RECURSIVE LStrip(_)
LStrip(s) == IF s # <<>> /\ Head(s) = WS THEN LStrip(Tail(s)) ELSE s

RECURSIVE RStrip(_)
RStrip(s) ==
    IF s # <<>> /\ s[Len(s)] = WS THEN RStrip(SubSeq(s, 1, Len(s) - 1)) ELSE s

Strip(s) == RStrip(LStrip(s))

\* json.loads(): one JSON document and nothing else; any other text raises
\* JSONDecodeError ("Expecting value", "Extra data").
JsonLoads(s) ==
    IF Len(s) = 1 /\ s[1].kind = "obj"
    THEN [ok |-> TRUE, value |-> s[1].value]
    ELSE [ok |-> FALSE, value |-> None]

Diagnostic(line_num, file_path) == [line_num |-> line_num, file_path |-> file_path]

\* read_records: the loop over enumerate(f, 1), from line i on.
RECURSIVE ReadFrom(_, _, _)
ReadFrom(file_path, lines, i) ==
    IF i > Len(lines)
    THEN [records |-> <<>>, diagnostics |-> <<>>]
    ELSE LET rest == ReadFrom(file_path, lines, i + 1)
             line == Strip(lines[i])
             parsed == JsonLoads(line)
         IN  IF line = <<>>
             THEN rest
             ELSE IF parsed.ok
             THEN [rest EXCEPT !.records = <<parsed.value>> \o @]
             ELSE [rest EXCEPT !.diagnostics = <<Diagnostic(i, file_path)>> \o @]

\* The reader with enumerate(f) in place of enumerate(f, 1).
ReadRecordsFromZero(file_path, lines) ==
    LET r == ReadFrom(file_path, lines, 1)
    IN  [r EXCEPT !.diagnostics =
            [j \in 1 .. Len(@) |-> Diagnostic(@[j].line_num - 1, file_path)]]

read_records(file_path, lines) == ReadFrom(file_path, lines, 1)

----------------------------------------------------------------------------
(* Descriptive statistics. *)

NoStats == [none |-> TRUE]

\* The percentiles the program asks for, and the two ends.  For these,
\* percentile / 100 is exact in binary floating point.
Percentiles == {0, 25, 50, 75, 100}

\* The percentile taken on the values as given.
Unsorted(values) == values

Sorted(values) == SortSeq(values, LAMBDA a, b : a < b)

\* calculate_percentile, times 100: index is idx100 / 100, weight is
\* w100 / 100, and the sequence is 1-based here.
calculate_percentile(values, percentile) ==
    IF values = <<>>
    THEN None
    ELSE LET sorted_values == Sorted(values)
             idx100 == percentile * (Len(sorted_values) - 1)
             lower == idx100 \div 100
             upper == Min2(lower + 1, Len(sorted_values) - 1)
             w100 == idx100 - 100 * lower
         IN  sorted_values[lower + 1] * (100 - w100)
                 + sorted_values[upper + 1] * w100

\* calculate_stats: avg is the fraction sum / len, kept as the pair.
calculate_stats(values) ==
    IF values = <<>>
    THEN NoStats
    ELSE [none |-> FALSE,
          avg |-> <<SumSeq(values), Len(values)>>,
          median |-> calculate_percentile(values, 50),
          p25 |-> calculate_percentile(values, 25),
          p75 |-> calculate_percentile(values, 75)]

----------------------------------------------------------------------------
(* Effect size.  A float is the fraction num / den with den >= 0: den = 0  *)
(* makes it +inf, -inf or (num = 0) nan, as numpy's float64 division does. *)

Float(num, den) == [num |-> num, den |-> den]
NaN == Float(0, 0)

\* x / y for y >= 0 or nan.
FloatDiv(x, y) == Float(x.num * y.den, x.den * y.num)

FloatAbs(x) == Float(Abs(x.num), x.den)

\* x < t / 10; every comparison with nan is false.
FloatLess(x, t) ==
    IF x.den > 0 THEN 10 * x.num < t * x.den ELSE x.num < 0

\* The bands with each boundary given to the lower band.
interpret_effect_size_inclusive(d) ==
    LET AtMost(t) == d.den > 0 /\ 10 * d.num <= t * d.den
    IN  IF AtMost(2) \/ FloatLess(d, 2) THEN "negligible"
        ELSE IF AtMost(5) THEN "small"
        ELSE IF AtMost(8) THEN "medium"
        ELSE "large"

interpret_effect_size(d) ==
    IF FloatLess(d, 2) THEN "negligible"
    ELSE IF FloatLess(d, 5) THEN "small"
    ELSE IF FloatLess(d, 8) THEN "medium"
    ELSE "large"

\* statistical_comparison, the effect-size entry of its result.
EffectSize(mean_diff, std_diff) ==
    LET cohens_d == FloatDiv(mean_diff, std_diff)
    IN  [cohens_d |-> cohens_d,
         interpretation |-> interpret_effect_size(FloatAbs(cohens_d))]

----------------------------------------------------------------------------
(* Records.  The schema of section 3 of the specification: score, metadata *)
(* and timing hold dicts, trials holds a list of dicts, the rest scalars.  *)

\* dict.get(key, default)
Get(r, key, default) == IF key \in DOMAIN r THEN r[key] ELSE default

\* isinstance(value, dict), and the list-of-dicts test, by the key's path.
IsDictAt(path) == path \in {<<"score">>, <<"metadata">>, <<"timing">>}
IsListAt(path) == path = <<"trials">>

\* get_keys_recursive: the key paths, a path being its dotted segments.
RECURSIVE get_keys_recursive(_, _)
get_keys_recursive(obj, prefix) ==
    UNION {
        LET full_key == prefix \o <<key>>
        IN  {full_key} \cup
            (IF IsDictAt(full_key)
             THEN get_keys_recursive(obj[key], full_key)
             ELSE IF IsListAt(full_key) /\ obj[key] # <<>>
             THEN get_keys_recursive(obj[key][1], full_key \o <<"[]">>)
             ELSE {})
        : key \in DOMAIN obj }

Count(s, Test(_)) == Len(SelectSeq(s, Test))

\* print_stats: what it prints, and the exception it ends with ("" when it
\* returns).  What was printed before a raise stays printed.
print_stats(records, label) ==
    LET head == (IF label # "" THEN <<[section |-> "label", label |-> label]>>
                 ELSE <<>>)
                \o <<[section |-> "total", n |-> Len(records)]>>
    IN
    IF records = <<>>
    THEN [raised |-> "", out |-> head \o <<[section |-> "no_records"]>>]
    ELSE
    LET first_record == records[1]
        keys == <<[section |-> "keys",
                   keys |-> get_keys_recursive(first_record, <<>>)]>>
        HasScore(r) == "score" \in DOMAIN r /\ DOMAIN r["score"] # {}
        scores == SelectSeq(records, HasScore)
        pass_count == Count(scores, LAMBDA r : Get(r["score"], "pass", FALSE))
        score_sum == SumSeq([i \in 1 .. Len(scores) |->
                                Get(scores[i]["score"], "score", 0)])
        trial_records == SelectSeq(records, LAMBDA r : "trials" \in DOMAIN r)
        total_trials == SumSeq([i \in 1 .. Len(records) |->
                                   Len(Get(records[i], "trials", <<>>))])
        agent_of(r) == IF "metadata" \in DOMAIN r
                       THEN Get(r["metadata"], "agent", None) ELSE None
        agents == [a \in {agent_of(records[i]) : i \in 1 .. Len(records)} |->
                      Count(records, LAMBDA r : agent_of(r) = a)]
        HasTiming(r) == "timing" \in DOMAIN r /\ DOMAIN r["timing"] # {}
        timings == SelectSeq(records, HasTiming)
        total_times == SelectSeq([i \in 1 .. Len(timings) |->
                                     Get(timings[i]["timing"], "total", 0)],
                                 LAMBDA t : t # 0)
        overall ==
            <<[section |-> "overall"]>>
            \o (IF scores # <<>>
                THEN <<[section |-> "scores", with |-> Len(scores),
                        pass_count |-> pass_count, score_sum |-> score_sum]>>
                ELSE <<>>)
            \o (IF trial_records # <<>>
                THEN <<[section |-> "trials", with |-> Len(trial_records),
                        total_trials |-> total_trials]>>
                ELSE <<>>)
            \o (IF "metadata" \in DOMAIN first_record
                THEN <<[section |-> "agents", agents |-> agents]>>
                ELSE <<>>)
            \o (IF total_times # <<>>
                THEN <<[section |-> "timing", time_sum |-> SumSeq(total_times),
                        count |-> Len(total_times)]>>
                ELSE <<>>)
    IN
    IF "id" \notin DOMAIN first_record
    THEN [raised |-> "KeyError: 'id'", out |-> head \o keys]
    ELSE IF "input" \notin DOMAIN first_record
    THEN [raised |-> "KeyError: 'input'", out |-> head \o keys]
    ELSE [raised |-> "",
          out |-> head \o keys
                  \o <<[section |-> "example",
                        id |-> first_record["id"],
                        input |-> first_record["input"],
                        passAtK |-> Get(first_record, "passAtK", None),
                        k |-> Get(first_record, "k", None)]>>
                  \o overall]

\* {r["id"]: r for r in records}: a later record replaces an earlier one
\* with the same id; a record without "id" raises KeyError.
RECURSIVE IndexFrom(_, _, _)
IndexFrom(records, i, by_id) ==
    IF i > Len(records)
    THEN [raised |-> "", by_id |-> by_id]
    ELSE IF "id" \notin DOMAIN records[i]
    THEN [raised |-> "KeyError: 'id'", by_id |-> by_id]
    ELSE LET id == records[i]["id"]
         IN  IndexFrom(records, i + 1,
                       [k \in DOMAIN by_id \cup {id} |->
                           IF k = id THEN records[i] ELSE by_id[k]])

EmptyDict == [k \in {} |-> None]

\* The index in which the first record with an id is the one kept.
RECURSIVE IndexFromFirstWins(_, _, _)
IndexFromFirstWins(records, i, by_id) ==
    IF i > Len(records)
    THEN [raised |-> "", by_id |-> by_id]
    ELSE IF "id" \notin DOMAIN records[i]
    THEN [raised |-> "KeyError: 'id'", by_id |-> by_id]
    ELSE LET id == records[i]["id"]
         IN  IndexFromFirstWins(records, i + 1,
                 [k \in DOMAIN by_id \cup {id} |->
                     IF k \in DOMAIN by_id THEN by_id[k] ELSE records[i]])

IndexByIdFirstWins(records) == IndexFromFirstWins(records, 1, EmptyDict)

IndexById(records) == IndexFrom(records, 1, EmptyDict)

----------------------------------------------------------------------------
(* The state before main has bound anything. *)

DefaultYouPath == "data/results/2026-02-18/droid/you.jsonl"
DefaultBuiltinPath == "data/results/2026-02-18/droid/builtin.jsonl"
Paths == {DefaultYouPath, DefaultBuiltinPath, "a.jsonl", "b.jsonl"}

NoFiles == [p \in Paths |-> <<>>]

IoUnset == stdout = <<>> /\ stderr = <<>> /\ exit_status = Unset /\ raised = ""

MainUnset ==
    /\ you_path = "" /\ builtin_path = ""
    /\ you_records = <<>> /\ builtin_records = <<>>
    /\ you_by_id = EmptyDict /\ builtin_by_id = EmptyDict
    /\ matching_ids = {} /\ pending_ids = {} /\ aligned_ids = <<>>
    /\ you_passAtK_values = <<>> /\ builtin_passAtK_values = <<>>
    /\ you_better = <<>>
    /\ you_stats = NoStats /\ builtin_stats = NoStats
    /\ you_wins = Unset /\ builtin_wins = Unset /\ ties = Unset

----------------------------------------------------------------------------
(* read_records, called on one file. *)

ReaderPath == "a.jsonl"
ReaderRecords == {[id |-> i] : i \in 1 .. 2}
ReaderTokens == {WS, JUNK} \cup {OBJ(r) : r \in ReaderRecords}
ReaderLines == SeqsUpTo(ReaderTokens, MaxLineLen)

InitReader ==
    /\ pc = "call"
    /\ call = [fn |-> "read_records", file_path |-> ReaderPath]
    /\ ret = <<>>
    /\ argv = <<>>
    /\ \/ /\ exists = {ReaderPath}
          /\ \E lines \in SeqsUpTo(ReaderLines, MaxLines) :
                files = [NoFiles EXCEPT ![ReaderPath] = lines]
       \/ /\ exists = {}
          /\ files = NoFiles
    /\ IoUnset
    /\ MainUnset

\* open() of a missing file: FileNotFoundError leaves read_records.
ReadRecordsOpenFails ==
    /\ pc = "call"
    /\ call.fn = "read_records"
    /\ call.file_path \notin exists
    /\ pc' = "raise"
    /\ raised' = "FileNotFoundError"
    /\ UNCHANGED <<envVars, stdout, stderr, exit_status, callVars, mainVars>>

ReadRecordsReturns ==
    /\ pc = "call"
    /\ call.fn = "read_records"
    /\ call.file_path \in exists
    /\ LET r == read_records(call.file_path, files[call.file_path])
       IN  /\ ret' = r.records
           /\ stderr' = stderr \o r.diagnostics
    /\ pc' = "return"
    /\ UNCHANGED <<envVars, stdout, exit_status, raised, call, mainVars>>

NextReader == ReadRecordsOpenFails \/ ReadRecordsReturns

SpecReader == InitReader /\ [][NextReader]_vars

----------------------------------------------------------------------------
(* calculate_percentile and calculate_stats, called on one sample. *)

Samples == SeqsUpTo(0 .. MaxVal, MaxLen)

InitPercentile ==
    /\ pc = "call"
    /\ \/ \E values \in Samples, percentile \in Percentiles :
             call = [fn |-> "calculate_percentile", values |-> values,
                     percentile |-> percentile]
       \/ \E values \in Samples :
             call = [fn |-> "calculate_stats", values |-> values]
    /\ ret = None
    /\ argv = <<>> /\ exists = {} /\ files = NoFiles
    /\ IoUnset
    /\ MainUnset

CalculatePercentileReturns ==
    /\ pc = "call"
    /\ call.fn = "calculate_percentile"
    /\ ret' = calculate_percentile(call.values, call.percentile)
    /\ pc' = "return"
    /\ UNCHANGED <<envVars, ioVars, call, mainVars>>

CalculateStatsReturns ==
    /\ pc = "call"
    /\ call.fn = "calculate_stats"
    /\ ret' = calculate_stats(call.values)
    /\ pc' = "return"
    /\ UNCHANGED <<envVars, ioVars, call, mainVars>>

NextPercentile == CalculatePercentileReturns \/ CalculateStatsReturns

SpecPercentile == InitPercentile /\ [][NextPercentile]_vars

----------------------------------------------------------------------------
(* interpret_effect_size, called alone and from statistical_comparison.    *)
(* The standard deviation of the differences is 0 or more, or nan (n = 1). *)

InitEffect ==
    /\ pc = "call"
    /\ \/ \E num \in (0 - MaxDiff) .. MaxDiff, den \in 0 .. MaxStd :
             call = [fn |-> "interpret_effect_size", d |-> Float(num, den)]
       \/ \E m \in (0 - MaxDiff) .. MaxDiff :
          \E std \in {Float(s, 1) : s \in 0 .. MaxStd} \cup {NaN} :
             call = [fn |-> "statistical_comparison",
                     mean_diff |-> Float(m, 1), std_diff |-> std]
    /\ ret = [none |-> TRUE]
    /\ argv = <<>> /\ exists = {} /\ files = NoFiles
    /\ IoUnset
    /\ MainUnset

InterpretEffectSizeReturns ==
    /\ pc = "call"
    /\ call.fn = "interpret_effect_size"
    /\ ret' = [interpretation |-> interpret_effect_size(call.d)]
    /\ pc' = "return"
    /\ UNCHANGED <<envVars, ioVars, call, mainVars>>

StatisticalComparisonReturns ==
    /\ pc = "call"
    /\ call.fn = "statistical_comparison"
    /\ ret' = EffectSize(call.mean_diff, call.std_diff)
    /\ pc' = "return"
    /\ UNCHANGED <<envVars, ioVars, call, mainVars>>

NextEffect == InterpretEffectSizeReturns \/ StatisticalComparisonReturns

SpecEffect == InitEffect /\ [][NextEffect]_vars

----------------------------------------------------------------------------
(* main, from the command line to the two paths (lines 223-236). *)

\* The names bound at module level: the imports of lines 9-14 and the defs.
ModuleGlobals ==
    {"json", "sys", "Path", "Counter", "np", "stats",
     "get_keys_recursive", "read_records", "print_stats",
     "calculate_percentile", "calculate_stats", "statistical_comparison",
     "interpret_effect_size", "main"}

\* An uncaught exception: the traceback goes to standard error and the
\* interpreter exits with status 1.
Traceback(exception) == [traceback |-> exception]

FileNotFound(path) == [error |-> "File not found", path |-> path]

ArgPaths == {"a.jsonl", "b.jsonl"}

Init ==
    /\ pc = "main"
    /\ argv \in SeqsUpTo(ArgPaths, 2)
    /\ exists \in SUBSET Paths
    /\ files = NoFiles
    /\ call = [fn |-> "main"]
    /\ ret = None
    /\ IoUnset
    /\ MainUnset

\* Lines 224-236.  argparse is looked up at line 226 and default_builtin_path
\* at line 236; line 235 rebinds you_path to the default after line 231
\* bound it to the argument.
MainResolvePaths ==
    /\ pc = "main"
    /\ LET default_you_path == DefaultYouPath
       IN  IF "argparse" \notin ModuleGlobals
           THEN /\ raised' = "NameError: name 'argparse' is not defined"
                /\ stderr' = stderr \o <<Traceback(raised')>>
                /\ exit_status' = 1
                /\ pc' = "raise"
                /\ UNCHANGED pathVars
           ELSE IF "default_builtin_path" \notin ModuleGlobals
           THEN /\ raised' = "NameError: name 'default_builtin_path' is not defined"
                /\ stderr' = stderr \o <<Traceback(raised')>>
                /\ exit_status' = 1
                /\ pc' = "raise"
                /\ you_path' = default_you_path
                /\ UNCHANGED builtin_path
           ELSE /\ you_path' = default_you_path
                /\ builtin_path' = DefaultBuiltinPath
                /\ pc' = "check_exists"
                /\ UNCHANGED <<stderr, exit_status, raised>>
    /\ UNCHANGED <<envVars, stdout, callVars, recordVars, indexVars,
                   loopVars, statVars, h2hVars>>

Next == MainResolvePaths

Spec == Init /\ [][Next]_vars

----------------------------------------------------------------------------
(* main, from the existence checks to the end (lines 238-428), entered     *)
(* with the two paths bound to the defaults.                               *)

PipelineRecords ==
    {[id |-> i, input |-> 1] : i \in Ids}
    \cup {[id |-> i, input |-> 1, passAtK |-> v] : i \in Ids, v \in PassValues}

PipelineLines == {<<OBJ(r)>> : r \in PipelineRecords}

PipelineFiles == SeqsUpTo(PipelineLines, MaxLines)

InitPipeline ==
    /\ pc = "check_exists"
    /\ argv = <<>>
    /\ exists \in SUBSET {DefaultYouPath, DefaultBuiltinPath}
    /\ \E you_lines \in IF DefaultYouPath \in exists
                        THEN PipelineFiles ELSE {<<>>} :
       \E builtin_lines \in IF DefaultBuiltinPath \in exists
                            THEN PipelineFiles ELSE {<<>>} :
          files = [NoFiles EXCEPT ![DefaultYouPath] = you_lines,
                                  ![DefaultBuiltinPath] = builtin_lines]
    /\ call = [fn |-> "main"]
    /\ ret = None
    /\ IoUnset
    /\ you_path = DefaultYouPath /\ builtin_path = DefaultBuiltinPath
    /\ you_records = <<>> /\ builtin_records = <<>>
    /\ you_by_id = EmptyDict /\ builtin_by_id = EmptyDict
    /\ matching_ids = {} /\ pending_ids = {} /\ aligned_ids = <<>>
    /\ you_passAtK_values = <<>> /\ builtin_passAtK_values = <<>>
    /\ you_better = <<>>
    /\ you_stats = NoStats /\ builtin_stats = NoStats
    /\ you_wins = Unset /\ builtin_wins = Unset /\ ties = Unset

\* Lines 238-240.
MainYouMissing ==
    /\ pc = "check_exists"
    /\ you_path \notin exists
    /\ stderr' = stderr \o <<FileNotFound(you_path)>>
    /\ exit_status' = 1
    /\ pc' = "exit"
    /\ UNCHANGED <<envVars, stdout, raised, callVars, mainVars>>

\* Lines 242-244.
MainBuiltinMissing ==
    /\ pc = "check_exists"
    /\ you_path \in exists
    /\ builtin_path \notin exists
    /\ stderr' = stderr \o <<FileNotFound(builtin_path)>>
    /\ exit_status' = 1
    /\ pc' = "exit"
    /\ UNCHANGED <<envVars, stdout, raised, callVars, mainVars>>

\* Lines 247-248.
MainReadRecords ==
    /\ pc = "check_exists"
    /\ you_path \in exists
    /\ builtin_path \in exists
    /\ LET you == read_records(you_path, files[you_path])
           builtin == read_records(builtin_path, files[builtin_path])
       IN  /\ you_records' = you.records
           /\ builtin_records' = builtin.records
           /\ stderr' = stderr \o you.diagnostics \o builtin.diagnostics
    /\ pc' = "print_stats"
    /\ UNCHANGED <<envVars, stdout, exit_status, raised, callVars, pathVars,
                   indexVars, loopVars, statVars, h2hVars>>

\* Lines 251-257.
MainPrintStats ==
    /\ pc = "print_stats"
    /\ LET you == print_stats(you_records, "YOU")
           builtin == print_stats(builtin_records, "BUILTIN")
       IN  IF you.raised # ""
           THEN /\ stdout' = stdout \o you.out
                /\ raised' = you.raised
                /\ stderr' = stderr \o <<Traceback(you.raised)>>
                /\ exit_status' = 1
                /\ pc' = "raise"
           ELSE IF builtin.raised # ""
           THEN /\ stdout' = stdout \o you.out \o builtin.out
                /\ raised' = builtin.raised
                /\ stderr' = stderr \o <<Traceback(builtin.raised)>>
                /\ exit_status' = 1
                /\ pc' = "raise"
           ELSE /\ stdout' = stdout \o you.out \o builtin.out
                                \o <<[section |-> "comparison"]>>
                /\ pc' = "index"
                /\ UNCHANGED <<stderr, exit_status, raised>>
    /\ UNCHANGED <<envVars, callVars, mainVars>>

\* Lines 260-270.
MainIndexById ==
    /\ pc = "index"
    /\ LET you == IndexById(you_records)
           builtin == IndexById(builtin_records)
           failed == IF you.raised # "" THEN you.raised ELSE builtin.raised
       IN  IF failed # ""
           THEN /\ raised' = failed
                /\ stderr' = stderr \o <<Traceback(failed)>>
                /\ exit_status' = 1
                /\ pc' = "raise"
                /\ UNCHANGED <<stdout, indexVars, loopVars>>
           ELSE /\ you_by_id' = you.by_id
                /\ builtin_by_id' = builtin.by_id
                /\ matching_ids' = DOMAIN you.by_id \cap DOMAIN builtin.by_id
                /\ stdout' = stdout \o <<[section |-> "matching",
                                          n |-> Cardinality(matching_ids')]>>
                /\ pending_ids' = matching_ids'
                /\ aligned_ids' = <<>>
                /\ you_better' = <<>>
                /\ you_passAtK_values' = <<>>
                /\ builtin_passAtK_values' = <<>>
                /\ pc' = "loop"
                /\ UNCHANGED <<stderr, exit_status, raised>>
    /\ UNCHANGED <<envVars, callVars, pathVars, recordVars, statVars, h2hVars>>

\* The test of line 280 written as a truth test, which a passAtK of 0 fails.
BothTruthy(you_passAtK, builtin_passAtK) ==
    you_passAtK \notin {None, 0} /\ builtin_passAtK \notin {None, 0}

\* Line 280.
BothHavePassAtK(you_passAtK, builtin_passAtK) ==
    you_passAtK # None /\ builtin_passAtK # None

\* Lines 272-285, one iteration.  A set is iterated in no stated order.
MainLoopBody ==
    /\ pc = "loop"
    /\ \E record_id \in pending_ids :
          LET you_record == you_by_id[record_id]
              builtin_record == builtin_by_id[record_id]
              you_passAtK == Get(you_record, "passAtK", None)
              builtin_passAtK == Get(builtin_record, "passAtK", None)
          IN  /\ pending_ids' = pending_ids \ {record_id}
              /\ IF BothHavePassAtK(you_passAtK, builtin_passAtK)
                 THEN /\ you_passAtK_values' =
                             Append(you_passAtK_values, you_passAtK)
                      /\ builtin_passAtK_values' =
                             Append(builtin_passAtK_values, builtin_passAtK)
                      /\ aligned_ids' = Append(aligned_ids, record_id)
                      /\ you_better' =
                             IF you_passAtK > builtin_passAtK
                             THEN Append(you_better, record_id)
                             ELSE you_better
                 ELSE UNCHANGED <<you_passAtK_values, builtin_passAtK_values,
                                  aligned_ids, you_better>>
    /\ UNCHANGED <<pc, envVars, ioVars, callVars, pathVars, recordVars,
                   indexVars, statVars, h2hVars>>

\* Lines 287-304.
MainCalculateStats ==
    /\ pc = "loop"
    /\ pending_ids = {}
    /\ you_stats' = calculate_stats(you_passAtK_values)
    /\ builtin_stats' = calculate_stats(builtin_passAtK_values)
    /\ stdout' = stdout
                 \o <<[section |-> "you_better", n |-> Len(you_better),
                       of |-> Cardinality(matching_ids)],
                      [section |-> "statistics"]>>
                 \o (IF ~you_stats'.none /\ ~builtin_stats'.none
                     THEN <<[section |-> "statistics_rows",
                             you |-> you_stats', builtin |-> builtin_stats']>>
                     ELSE <<>>)
    /\ pc' = "compare"
    /\ UNCHANGED <<envVars, stderr, exit_status, raised, callVars, pathVars,
                   recordVars, indexVars, loopVars, h2hVars>>

\* The guard with only its comparison of the lengths.
CompareGuardLengthOnly ==
    Len(you_passAtK_values) = Len(builtin_passAtK_values)

\* The guard of line 307.
CompareGuard ==
    /\ you_passAtK_values # <<>>
    /\ builtin_passAtK_values # <<>>
    /\ Len(you_passAtK_values) = Len(builtin_passAtK_values)

\* Line 307, the guard false: main returns and the process ends.
MainCompareSkipped ==
    /\ pc = "compare"
    /\ ~CompareGuard
    /\ exit_status' = 0
    /\ pc' = "done"
    /\ UNCHANGED <<envVars, stdout, stderr, raised, callVars, mainVars>>

\* The differences taken the other way round.
DifferencesReversed(you_values, builtin_values) ==
    [i \in 1 .. Len(you_values) |-> builtin_values[i] - you_values[i]]

\* Line 354.
Differences(you_values, builtin_values) ==
    [i \in 1 .. Len(you_values) |-> you_values[i] - builtin_values[i]]

\* Lines 308-399.
MainCompare ==
    /\ pc = "compare"
    /\ CompareGuard
    /\ LET n == Len(you_passAtK_values)
           differences == Differences(you_passAtK_values, builtin_passAtK_values)
       IN  /\ you_wins' = Count(differences, LAMBDA d : d > 0)
           /\ builtin_wins' = Count(differences, LAMBDA d : d < 0)
           /\ ties' = Count(differences, LAMBDA d : d = 0)
           /\ stdout' = stdout
                 \o <<[section |-> "individual", n |-> n],
                      [section |-> "mean_difference",
                       sum |-> SumSeq(differences), n |-> n],
                      [section |-> "head_to_head", n |-> n,
                       you_wins |-> you_wins', builtin_wins |-> builtin_wins',
                       ties |-> ties'],
                      [section |-> "why"]>>
                 \o (IF you_wins' > 0 /\ builtin_wins' > 0
                     THEN <<[section |-> "margins"]>> ELSE <<>>)
    /\ pc' = "tests"
    /\ UNCHANGED <<envVars, stderr, exit_status, raised, callVars, pathVars,
                   recordVars, indexVars, loopVars, statVars>>

\* Lines 402-428: statistical_comparison returns and the tests are printed.
MainStatisticalTests ==
    /\ pc = "tests"
    /\ stdout' = stdout \o <<[section |-> "tests"]>>
    /\ exit_status' = 0
    /\ pc' = "done"
    /\ UNCHANGED <<envVars, stderr, raised, callVars, mainVars>>

\* Line 202: scipy's wilcoxon, given differences that are all zero, raises
\* ValueError in the releases that refuse that input.
MainStatisticalTestsRaise ==
    /\ pc = "tests"
    /\ \A i \in 1 .. Len(you_passAtK_values) :
          you_passAtK_values[i] = builtin_passAtK_values[i]
    /\ raised' = "ValueError"
    /\ stderr' = stderr \o <<Traceback("ValueError")>>
    /\ exit_status' = 1
    /\ pc' = "raise"
    /\ UNCHANGED <<envVars, stdout, callVars, mainVars>>

NextPipeline ==
    \/ MainYouMissing
    \/ MainBuiltinMissing
    \/ MainReadRecords
    \/ MainPrintStats
    \/ MainIndexById
    \/ MainLoopBody
    \/ MainCalculateStats
    \/ MainCompareSkipped
    \/ MainCompare
    \/ MainStatisticalTests
    \/ MainStatisticalTestsRaise

SpecPipeline == InitPipeline /\ [][NextPipeline]_vars

----------------------------------------------------------------------------
(* The two places that read a record's fields by subscript, on one record  *)
(* set: print_stats, and the dict comprehension of lines 260-261.  A       *)
(* record holds any of the seven fields of the data model.                 *)

Fields == {"id", "input", "passAtK", "score", "trials", "metadata", "timing"}

FieldValue(key) ==
    CASE key = "score" -> [pass |-> TRUE, score |-> 1]
      [] key = "trials" -> <<[pass |-> TRUE]>>
      [] key = "metadata" -> [agent |-> 1]
      [] key = "timing" -> [total |-> 3]
      [] OTHER -> 1

StatRecords == {[key \in present |-> FieldValue(key)] : present \in SUBSET Fields}

InitStats ==
    /\ pc = "call"
    /\ \E records \in SeqsUpTo(StatRecords, MaxStatRecords) :
          \/ call = [fn |-> "print_stats", records |-> records, label |-> "YOU"]
          \/ call = [fn |-> "<dictcomp>", records |-> records]
    /\ ret = EmptyDict
    /\ argv = <<>> /\ exists = {} /\ files = NoFiles
    /\ IoUnset
    /\ MainUnset

PrintStatsReturns ==
    /\ pc = "call"
    /\ call.fn = "print_stats"
    /\ LET r == print_stats(call.records, call.label)
       IN  /\ r.raised = ""
           /\ stdout' = stdout \o r.out
    /\ pc' = "return"
    /\ UNCHANGED <<envVars, stderr, exit_status, raised, callVars, mainVars>>

PrintStatsRaises ==
    /\ pc = "call"
    /\ call.fn = "print_stats"
    /\ LET r == print_stats(call.records, call.label)
       IN  /\ r.raised # ""
           /\ stdout' = stdout \o r.out
           /\ raised' = r.raised
    /\ pc' = "raise"
    /\ UNCHANGED <<envVars, stderr, exit_status, callVars, mainVars>>

IndexByIdReturns ==
    /\ pc = "call"
    /\ call.fn = "<dictcomp>"
    /\ LET r == IndexById(call.records)
       IN  /\ r.raised = ""
           /\ ret' = r.by_id
    /\ pc' = "return"
    /\ UNCHANGED <<envVars, ioVars, call, mainVars>>

IndexByIdRaises ==
    /\ pc = "call"
    /\ call.fn = "<dictcomp>"
    /\ LET r == IndexById(call.records)
       IN  /\ r.raised # ""
           /\ raised' = r.raised
    /\ pc' = "raise"
    /\ UNCHANGED <<envVars, stdout, stderr, exit_status, callVars, mainVars>>

NextStats ==
    \/ PrintStatsReturns
    \/ PrintStatsRaises
    \/ IndexByIdReturns
    \/ IndexByIdRaises

SpecStats == InitStats /\ [][NextStats]_vars

----------------------------------------------------------------------------
(* Properties. *)

NonBlank(line) == {j \in 1 .. Len(line) : line[j] # WS}
IsBlankLine(line) == NonBlank(line) = {}
IsWellFormedLine(line) ==
    /\ Cardinality(NonBlank(line)) = 1
    /\ \A j \in NonBlank(line) : line[j].kind = "obj"
IsMalformedLine(line) == ~IsBlankLine(line) /\ ~IsWellFormedLine(line)

\* The n-th smallest member of a set of numbers.
Nth(S, n) == CHOOSE i \in S : Cardinality({x \in S : x < i}) = n - 1

\* C1: read_records returns exactly the well-formed lines' records in file
\* order, writes exactly one diagnostic per malformed line, each with the
\* line's 1-based physical number (blank and malformed lines counted) and
\* the file path, and raises only when the file cannot be opened.
ReadRecordsContract ==
    /\ pc = "return" /\ call.fn = "read_records" =>
          LET lines == files[call.file_path]
              good == {i \in 1 .. Len(lines) : IsWellFormedLine(lines[i])}
              bad == {i \in 1 .. Len(lines) : IsMalformedLine(lines[i])}
              TheObject(line) == line[Nth(NonBlank(line), 1)].value
          IN  /\ ret = [j \in 1 .. Cardinality(good) |->
                           TheObject(lines[Nth(good, j)])]
              /\ stderr = [j \in 1 .. Cardinality(bad) |->
                              Diagnostic(Nth(bad, j), call.file_path)]
              /\ raised = ""
    /\ pc = "raise" /\ call.fn = "read_records" =>
          call.file_path \notin exists /\ stderr = <<>>

\* A blank line, then a malformed line reported as line 2.
ReadRecordsWitness ==
    /\ pc = "return" /\ call.fn = "read_records"
    /\ Len(files[call.file_path]) = 2
    /\ files[call.file_path][1] = <<WS>>
    /\ IsMalformedLine(files[call.file_path][2])
    /\ ret = <<>>
    /\ stderr = <<Diagnostic(2, call.file_path)>>

SeqMin(s) == CHOOSE x \in {s[i] : i \in 1 .. Len(s)} :
                 \A i \in 1 .. Len(s) : x <= s[i]
SeqMax(s) == CHOOSE x \in {s[i] : i \in 1 .. Len(s)} :
                 \A i \in 1 .. Len(s) : x >= s[i]

\* C7: for every non-empty sample, in any order, the 0th percentile is the
\* minimum and the 100th the maximum (results are 100 times the value).
PercentileEndpoints ==
    pc = "return" /\ call.fn = "calculate_percentile" /\ call.values # <<>> =>
        /\ call.percentile = 0 => ret = 100 * SeqMin(call.values)
        /\ call.percentile = 100 => ret = 100 * SeqMax(call.values)

\* A sample given in descending order, asked for its 100th percentile.
PercentileWitness ==
    /\ pc = "return" /\ call.fn = "calculate_percentile"
    /\ call.percentile = 100
    /\ Len(call.values) = 3
    /\ call.values[1] > call.values[2] /\ call.values[2] > call.values[3]
    /\ ret = 100 * call.values[1]

\* The band of a / b for a >= 0 and b > 0.
BandOf(a, b) ==
    CASE 5 * a < b -> "negligible"
      [] 5 * a >= b /\ 2 * a < b -> "small"
      [] 2 * a >= b /\ 5 * a < 4 * b -> "medium"
      [] 5 * a >= 4 * b -> "large"

\* C10: interpret_effect_size maps |d| < 0.2 to "negligible", 0.2 <= |d| <
\* 0.5 to "small", 0.5 <= |d| < 0.8 to "medium" and anything else to
\* "large"; statistical_comparison passes abs(cohens_d), so its label is
\* that of |mean difference| / std, whatever the sign of the difference.
EffectSizeBands ==
    /\ pc = "return" /\ call.fn = "interpret_effect_size" /\ call.d.num >= 0 =>
          ret.interpretation =
              IF call.d.den > 0 THEN BandOf(call.d.num, call.d.den) ELSE "large"
    /\ pc = "return" /\ call.fn = "statistical_comparison" =>
          ret.interpretation =
              IF call.std_diff.den > 0 /\ call.std_diff.num > 0
              THEN BandOf(Abs(call.mean_diff.num), call.std_diff.num)
              ELSE "large"

\* A negative mean difference of exactly half a standard deviation.
EffectSizeWitness ==
    /\ pc = "return" /\ call.fn = "statistical_comparison"
    /\ call.mean_diff.num < 0
    /\ call.std_diff.den > 0
    /\ 2 * Abs(call.mean_diff.num) = call.std_diff.num
    /\ ret.interpretation = "medium"

\* The paths the command line asks for: an argument when it is given, the
\* default when it is not.
CandidatePath == IF Len(argv) >= 1 THEN argv[1] ELSE DefaultYouPath
BaselinePath == IF Len(argv) >= 2 THEN argv[2] ELSE DefaultBuiltinPath

Printed(section) == \E i \in 1 .. Len(stdout) : stdout[i].section = section

\* C3: when the candidate or the baseline file is missing, main writes an
\* error naming the missing path to standard error and ends with a nonzero
\* status, having read no record and printed no report section.
MissingFileIsFatal ==
    pc # "main" /\ (CandidatePath \notin exists \/ BaselinePath \notin exists) =>
        /\ exit_status \notin {Unset, 0}
        /\ \E i \in 1 .. Len(stderr) :
              \E path \in {CandidatePath, BaselinePath} \ exists :
                 stderr[i] = FileNotFound(path)
        /\ stdout = <<>>
        /\ you_records = <<>> /\ builtin_records = <<>>

\* C4: the path main checks and reads for each side is the argument when one
\* is supplied and the default only when it is omitted.
CliPathSelection ==
    pc # "main" => you_path = CandidatePath /\ builtin_path = BaselinePath

\* C5: on a non-empty record set, print_stats and the id index finish
\* without raising, whichever fields the records lack.
FieldAbsenceTolerated ==
    call.fn \in {"print_stats", "<dictcomp>"} /\ call.records # <<>> =>
        pc # "raise" /\ raised = ""

\* The last record of a set that carries the id.
HasId(records, id) == \E i \in 1 .. Len(records) : records[i]["id"] = id
LastWith(records, id) ==
    records[CHOOSE i \in 1 .. Len(records) :
               /\ records[i]["id"] = id
               /\ \A j \in (i + 1) .. Len(records) : records[j]["id"] # id]

\* Control is past the loop of lines 272-285.
PastLoop == Printed("you_better")

\* The ids that should be aligned: in both record sets, with a passAtK that
\* is not null in the record that stands for the id on each side.
Alignable ==
    {id \in Ids :
        /\ HasId(you_records, id) /\ HasId(builtin_records, id)
        /\ Get(LastWith(you_records, id), "passAtK", None) # None
        /\ Get(LastWith(builtin_records, id), "passAtK", None) # None}

\* C2: after the loop the two value sequences have the same length, position
\* i of both comes from the same id, and the ids that contribute are exactly
\* those in both record sets with a non-null passAtK on both sides.
AlignedSamplePair ==
    PastLoop =>
        /\ Len(you_passAtK_values) = Len(builtin_passAtK_values)
        /\ Len(aligned_ids) = Len(you_passAtK_values)
        /\ {aligned_ids[i] : i \in 1 .. Len(aligned_ids)} = Alignable
        /\ \A i \in 1 .. Len(aligned_ids) :
              /\ you_passAtK_values[i] =
                    LastWith(you_records, aligned_ids[i])["passAtK"]
              /\ builtin_passAtK_values[i] =
                    LastWith(builtin_records, aligned_ids[i])["passAtK"]

\* Candidate {1: none, 2: 1} against baseline {2: 0}: the pair is ([1], [0]).
AlignedSamplePairWitness ==
    /\ pc = "done"
    /\ you_records = <<[id |-> 1, input |-> 1],
                       [id |-> 2, input |-> 1, passAtK |-> 1]>>
    /\ builtin_records = <<[id |-> 2, input |-> 1, passAtK |-> 0]>>
    /\ you_passAtK_values = <<1>>
    /\ builtin_passAtK_values = <<0>>

\* C6: when the aligned samples are empty, calculate_stats gives no result
\* for either side, main prints no statistics rows, enters neither the
\* individual-statistics block nor statistical_comparison, and ends
\* normally.
DegenerateInputSkipped ==
    PastLoop /\ you_passAtK_values = <<>> /\ builtin_passAtK_values = <<>> =>
        /\ pc = "compare" \/ (pc = "done" /\ exit_status = 0)
        /\ pc = "compare" => ENABLED MainCompareSkipped /\ ~ENABLED MainCompare
        /\ you_stats = NoStats /\ builtin_stats = NoStats
        /\ ~Printed("statistics_rows")
        /\ ~Printed("individual")
        /\ ~Printed("head_to_head")
        /\ ~Printed("tests")
        /\ raised = ""
        /\ you_wins = Unset /\ builtin_wins = Unset /\ ties = Unset

\* Matching ids, none with a passAtK on both sides, and a normal end.
DegenerateInputWitness ==
    /\ pc = "done"
    /\ exit_status = 0
    /\ matching_ids # {}
    /\ you_passAtK_values = <<>>
    /\ Printed("statistics")

\* C8: you_wins, builtin_wins and ties count the positions where the
\* candidate is greater, smaller and equal; they sum to n; identical
\* sequences give ties = n.
HeadToHead ==
    Printed("head_to_head") =>
        LET n == Len(you_passAtK_values)
            Positions(Test(_, _)) ==
                Cardinality({i \in 1 .. n :
                    Test(you_passAtK_values[i], builtin_passAtK_values[i])})
        IN  /\ n >= 1
            /\ you_wins = Positions(LAMBDA a, b : a > b)
            /\ builtin_wins = Positions(LAMBDA a, b : a < b)
            /\ ties = Positions(LAMBDA a, b : a = b)
            /\ you_wins + builtin_wins + ties = n
            /\ you_passAtK_values = builtin_passAtK_values => ties = n
            /\ \E i \in 1 .. Len(stdout) :
                  stdout[i] = [section |-> "head_to_head", n |-> n,
                               you_wins |-> you_wins,
                               builtin_wins |-> builtin_wins, ties |-> ties]

\* Two aligned positions: one candidate win and one tie.
HeadToHeadWitness ==
    /\ pc = "done"
    /\ Len(you_passAtK_values) = 2
    /\ you_wins = 1 /\ builtin_wins = 0 /\ ties = 1

\* Control is past the index of lines 260-261.
PastIndex == Printed("matching")

\* C9: the id index maps each id to the last record of the set that carries
\* it, the value aligned for an id is that record's passAtK, and an id gives
\* at most one aligned position.
DuplicateIdsLastWins ==
    /\ PastIndex =>
          /\ DOMAIN you_by_id = {id \in Ids : HasId(you_records, id)}
          /\ DOMAIN builtin_by_id = {id \in Ids : HasId(builtin_records, id)}
          /\ \A id \in DOMAIN you_by_id :
                you_by_id[id] = LastWith(you_records, id)
          /\ \A id \in DOMAIN builtin_by_id :
                builtin_by_id[id] = LastWith(builtin_records, id)
    /\ \A i, j \in 1 .. Len(aligned_ids) :
          aligned_ids[i] = aligned_ids[j] => i = j
    /\ \A i \in 1 .. Len(aligned_ids) :
          /\ you_passAtK_values[i] =
                Get(LastWith(you_records, aligned_ids[i]), "passAtK", None)
          /\ builtin_passAtK_values[i] =
                Get(LastWith(builtin_records, aligned_ids[i]), "passAtK", None)

\* The candidate file repeats an id with passAtK 0 and then 1; 1 is aligned.
DuplicateIdsWitness ==
    /\ pc = "done"
    /\ Len(you_records) = 2
    /\ you_records[1]["id"] = you_records[2]["id"]
    /\ Get(you_records[1], "passAtK", None) = 0
    /\ Get(you_records[2], "passAtK", None) = 1
    /\ you_passAtK_values = <<1>>

====
